---- MODULE Spec2Model ----
(***************************************************************************)
(* Fuel-stop planner of fuel_router_app/route_optimizer.py                 *)
(* (RouteOptimizer.find_optimal_fuel_stops and calculate_distance).        *)
(*                                                                         *)
(* Units.  A coordinate is a pair <<lat, lon>> measured in miles on a      *)
(* local plane (a route point is stored <<lon, lat>>, as the routing       *)
(* provider sends it).  Distances are whole miles.  Prices and costs are   *)
(* in cents; gallons and costs are exact rationals [n |-> , d |-> ].       *)
(***************************************************************************)
EXTENDS Integers, Sequences, FiniteSets, TLC

VARIABLES
    \* ---- inputs of find_optimal_fuel_stops and the station table ----
    start_coords,       \* <<lat, lon>>
    end_coords,         \* <<lat, lon>>
    route_coordinates,  \* sequence of <<lon, lat>>
    total_distance,     \* miles, as reported by the routing provider
    tank_range,         \* miles
    mpg,                \* miles per gallon
    catalog,            \* FuelStation.objects: sequence of station records
    \* ---- locals of find_optimal_fuel_stops ----
    stations,           \* the prefiltered station list
    sampled_points,     \* sequence of <<lon, lat>>
    i,                  \* 0-based index into sampled_points
    remaining_range,    \* value held between two loop iterations
    last_stop_coords,
    fuel_stops,         \* sequence of fuel-stop records
    \* ---- control and outcome ----
    pc,                 \* "start", "walk", "done", "stranded", "error"
    plan,               \* the returned dict, or NoPlan
    error,              \* the raised error, or NoError
    walk,               \* history: one record per loop iteration executed
    \* ---- the shared distance cache and its concurrent callers ----
    cache,              \* django.core.cache: function from key to value
    callers             \* per caller: the position and locals of its
                        \* calculate_distance call

\* the variables of the shared cache
cvars == <<cache, callers>>

\* the variables of one planning call
pvars == <<start_coords, end_coords, route_coordinates, total_distance,
           tank_range, mpg, catalog, stations, sampled_points, i,
           remaining_range, last_stop_coords, fuel_stops, pc, plan, error,
           walk>>

vars == <<start_coords, end_coords, route_coordinates, total_distance,
          tank_range, mpg, catalog, stations, sampled_points, i,
          remaining_range, last_stop_coords, fuel_stops, pc, plan, error,
          walk, cache, callers>>

inputs == <<start_coords, end_coords, route_coordinates, total_distance,
            tank_range, mpg, catalog>>

NoPlan == [none |-> "plan"]
NoError == [none |-> "error"]

----------------------------------------------------------------------------
(* Bounds of the model                                                     *)

\* longest route polyline of the general input family
MaxPts == 4
\* most stations in the station table
MaxStations == 2
\* number of concurrent callers of calculate_distance
MaxCallers == 2

----------------------------------------------------------------------------
(* Program constants                                                       *)

\* line 110: buffer = 1.0 degree, about 69 miles of latitude
buffer == 69
\* line 119: one sample every 50 miles
SampleMiles == 50
\* line 144: dist_to_next = 50 at the last sampled point
DefaultLookahead == 50
\* line 149: dist_to_next + 20
SafetyMargin == 20
\* line 163: remaining_range < 50 searches the full remaining range
DesperateRange == 50
\* line 233: d > min_d + 50 ends the resume scan
ResumeBuffer == 50
\* line 269: remaining_range < 20 with no station raises
CriticalRange == 20
\* line 292: fallback price 3.50, in cents
FallbackPrice == 350

----------------------------------------------------------------------------
(* Arithmetic helpers                                                      *)

Abs(x) == IF x < 0 THEN -x ELSE x

Max2(a, b) == IF a >= b THEN a ELSE b

RECURSIVE CeilSqrtIn(_, _, _)
\* least r in lo..hi with r * r >= n, by bisection
CeilSqrtIn(n, lo, hi) ==
    IF lo >= hi THEN lo
    ELSE LET mid == (lo + hi) \div 2
         IN  IF mid * mid >= n THEN CeilSqrtIn(n, lo, mid)
             ELSE CeilSqrtIn(n, mid + 1, hi)

RECURSIVE Gcd(_, _)
Gcd(a, b) == IF b = 0 THEN a ELSE Gcd(b, a % b)

\* the rational n / d (d # 0), in lowest terms with the sign of d kept
Rat(n, d) ==
    LET g == Gcd(Abs(n), Abs(d)) IN [n |-> n \div g, d |-> d \div g]
RatAdd(a, b) == Rat(a.n * b.d + b.n * a.d, a.d * b.d)
RatMul(a, b) == Rat(a.n * b.n, a.d * b.d)
RatEq(a, b) == a.n * b.d = b.n * a.d
\* a >= 0, for a positive or negative denominator
RatNonNeg(a) == (a.n >= 0 /\ a.d > 0) \/ (a.n <= 0 /\ a.d < 0)

----------------------------------------------------------------------------
(* calculate_distance: the cached great-circle distance.  The cache only   *)
(* memoises, so within one planning run it is the distance function.       *)

\* geodesic(point1, point2).miles on the local plane, rounded up to a mile
geodesic_miles(point1, point2) ==
    LET dlat == Abs(point1[1] - point2[1])
        dlon == Abs(point1[2] - point2[2])
    IN  IF dlon = 0 THEN dlat
        ELSE IF dlat = 0 THEN dlon
        ELSE CeilSqrtIn(dlat * dlat + dlon * dlon, 0, dlat + dlon)

calculate_distance(point1, point2) == geodesic_miles(point1, point2)

\* (point[1], point[0]): a route point <<lon, lat>> as a coordinate
Coords(point) == <<point[2], point[1]>>

----------------------------------------------------------------------------
(* Lines 70-84: calculate_distance against the shared cache, step by step, *)
(* for callers running concurrently                                        *)

\* the concurrent callers
Callers == 1..MaxCallers

\* the coordinates the concurrent callers ask about
CachePoints == {<<1, 10>>, <<11, 0>>}

\* the cache without any entry
EmptyCache == [k \in {} |-> 0]

\* a caller that has made no call yet
Idle == [pc |-> "idle", point1 |-> <<>>, point2 |-> <<>>, cache_key |-> "",
         cached_distance |-> <<>>, distance |-> <<>>, result |-> <<>>]

\* mutant: the four numbers printed without the "_" between them
CacheKeyUnseparated(point1, point2) ==
    "distance_" \o ToString(point1[1]) \o ToString(point1[2])
        \o ToString(point2[1]) \o ToString(point2[2])

\* line 73: f"distance_{point1[0]}_{point1[1]}_{point2[0]}_{point2[1]}"
cache_key(point1, point2) ==
    "distance_" \o ToString(point1[1]) \o "_" \o ToString(point1[2])
        \o "_" \o ToString(point2[1]) \o "_" \o ToString(point2[2])

\* cache.get(key): <<value>>, or <<>> for None
CacheLookup(key) == IF key \in DOMAIN cache THEN <<cache[key]>> ELSE <<>>

\* cache.set(key, value, timeout=86400)
CacheStore(key, value) ==
    [k \in DOMAIN cache \cup {key} |-> IF k = key THEN value ELSE cache[k]]

\* line 70: the call is entered and its key is built (line 73)
Call(c, point1, point2) ==
    /\ callers[c].pc \in {"idle", "done"}
    /\ callers' = [callers EXCEPT ![c] =
                      [Idle EXCEPT !.pc = "get", !.point1 = point1,
                                   !.point2 = point2,
                                   !.cache_key = cache_key(point1, point2)]]
    /\ UNCHANGED <<cache, pvars>>

\* line 74: cached_distance = cache.get(cache_key)
CacheGet(c) ==
    /\ callers[c].pc = "get"
    /\ callers' = [callers EXCEPT ![c].pc = "test",
                                  ![c].cached_distance =
                                      CacheLookup(callers[c].cache_key)]
    /\ UNCHANGED <<cache, pvars>>

\* lines 76-77: a hit is returned
ReturnCached(c) ==
    /\ callers[c].pc = "test"
    /\ callers[c].cached_distance # <<>>
    /\ callers' = [callers EXCEPT ![c].pc = "done",
                                  ![c].result = callers[c].cached_distance[1]]
    /\ UNCHANGED <<cache, pvars>>

\* line 80: a miss is computed
Compute(c) ==
    /\ callers[c].pc = "test"
    /\ callers[c].cached_distance = <<>>
    /\ callers' = [callers EXCEPT ![c].pc = "set",
                                  ![c].distance =
                                      geodesic_miles(callers[c].point1,
                                                     callers[c].point2)]
    /\ UNCHANGED <<cache, pvars>>

\* lines 83-84: the computed distance is stored and returned
CacheSet(c) ==
    /\ callers[c].pc = "set"
    /\ cache' = CacheStore(callers[c].cache_key, callers[c].distance)
    /\ callers' = [callers EXCEPT ![c].pc = "done",
                                  ![c].result = callers[c].distance]
    /\ UNCHANGED pvars

\* line 83, timeout=86400: an entry expires
Expire(key) ==
    /\ key \in DOMAIN cache
    /\ cache' = [k \in DOMAIN cache \ {key} |-> cache[k]]
    /\ UNCHANGED <<callers, pvars>>

----------------------------------------------------------------------------
(* Lines 103-116: the bounding-box prefilter of the station table          *)

RECURSIVE SeqMin(_), SeqMax(_)
SeqMin(s) == IF Len(s) = 1 THEN s[1]
             ELSE LET m == SeqMin(Tail(s)) IN IF s[1] <= m THEN s[1] ELSE m
SeqMax(s) == IF Len(s) = 1 THEN s[1]
             ELSE LET m == SeqMax(Tail(s)) IN IF s[1] >= m THEN s[1] ELSE m

InBox(station, route) ==
    LET lats == [k \in 1..Len(route) |-> route[k][2]]
        lons == [k \in 1..Len(route) |-> route[k][1]]
    IN  /\ station.lat >= SeqMin(lats) - buffer
        /\ station.lat <= SeqMax(lats) + buffer
        /\ station.lon >= SeqMin(lons) - buffer
        /\ station.lon <= SeqMax(lons) + buffer

Prefilter(table, route) == SelectSeq(table, LAMBDA st : InBox(st, route))

----------------------------------------------------------------------------
(* Lines 118-124: sampling of the route polyline                           *)

\* line 119; int(total_distance / 50) truncates
SampleInterval(route, td) ==
    IF td \div SampleMiles > 0
    THEN Max2(1, Len(route) \div (td \div SampleMiles))
    ELSE 1

\* route_coordinates[::step]
Slice(route, step) ==
    [k \in 1..((Len(route) + step - 1) \div step) |-> route[(k - 1) * step + 1]]

\* mutant: the slice alone, the last route point never appended
SamplePointsNoTail(route, td) == Slice(route, SampleInterval(route, td))

\* lines 120-124: the slice, with the last route point appended when the
\* slice does not already end with an equal point
SamplePoints(route, td) ==
    LET sliced == Slice(route, SampleInterval(route, td))
    IN  IF sliced[Len(sliced)] # route[Len(route)]
        THEN Append(sliced, route[Len(route)])
        ELSE sliced

----------------------------------------------------------------------------
(* Lines 128-152: what one loop iteration reads at sampled point i         *)

point == sampled_points[i + 1]

current_coords == Coords(point)

\* lines 133-135
dist_from_prev ==
    IF i > 0 THEN calculate_distance(Coords(sampled_points[i]), current_coords)
    ELSE 0

\* remaining_range after line 136
range_here == remaining_range - dist_from_prev

\* line 139
dist_from_start == calculate_distance(start_coords, current_coords)

\* lines 144-147
dist_to_next ==
    IF i < Len(sampled_points) - 1
    THEN calculate_distance(current_coords, Coords(sampled_points[i + 2]))
    ELSE DefaultLookahead

\* line 149: remaining_range < tank_range * 0.40 or
\*           remaining_range < dist_to_next + 20
NeedFuel(rr, tank, next) ==
    \/ 5 * rr < 2 * tank
    \/ rr < next + SafetyMargin

\* line 152
dist_to_end == calculate_distance(current_coords, end_coords)

\* mutant: the comparison of line 153 reversed
CanMakeItReversed(rr, to_end) == rr <= to_end

\* mutant: the destination must be strictly within range
CanMakeItStrict(rr, to_end) == rr > to_end

\* line 153
CanMakeIt(rr, to_end) == rr >= to_end

----------------------------------------------------------------------------
(* Lines 162-192: the station search                                       *)

\* mutant: the radius is taken from tank_range, not from remaining_range
WithinRadiusOfTank(d, rr) ==
    IF rr < DesperateRange THEN d <= tank_range ELSE 20 * d <= 19 * tank_range

\* mutant: the whole remaining_range as radius, without the 5% margin
WithinRadiusNoMargin(d, rr) == d <= rr

\* lines 162-164 and 170: dist_to_station <= search_radius, where the
\* radius is 0.95 * remaining_range, or remaining_range itself below 50
WithinRadius(d, rr) ==
    IF rr < DesperateRange THEN d <= rr ELSE 20 * d <= 19 * rr

\* lines 168-188; the score is in cents: 100 * (price + deviation * 0.05)
Candidate(station) ==
    LET at == <<station.lat, station.lon>>
        dist_to_station == calculate_distance(current_coords, at)
        deviation == (dist_to_station + calculate_distance(at, end_coords))
                     - dist_to_end
    IN  [station |-> station,
         distance |-> dist_to_station,
         deviation |-> deviation,
         score |-> station.retail_price + 5 * deviation]

\* lines 166-188, in the enumeration order of the prefiltered list
nearby_stations ==
    SelectSeq([k \in 1..Len(stations) |-> Candidate(stations[k])],
              LAMBDA c : WithinRadius(c.distance, range_here))

\* mutant: the last of the entries of minimal score
MinByScoreLast(cands) ==
    cands[CHOOSE k \in 1..Len(cands) :
            /\ \A j \in 1..Len(cands) : cands[k].score <= cands[j].score
            /\ \A j \in (k + 1)..Len(cands) : cands[j].score > cands[k].score]

\* line 191: min(..., key=score) returns the first of the minimal entries
MinByScore(cands) ==
    cands[CHOOSE k \in 1..Len(cands) :
            /\ \A j \in 1..Len(cands) : cands[k].score <= cands[j].score
            /\ \A j \in 1..(k - 1) : cands[j].score > cands[k].score]

best_station == MinByScore(nearby_stations)

----------------------------------------------------------------------------
(* Lines 199-216: the refuel                                               *)

\* mutant: the detour to the station added instead of subtracted
RangeAtStationAdds(rr, d) == rr + d

\* line 199
RangeAtStation(rr, d) == rr - d

\* line 200
GallonsToFill(tank, at_station, economy) == Rat(tank - at_station, economy)

\* line 203
StopCost(price, gallons) == RatMul(Rat(price, 1), gallons)

\* lines 205-216 (the station's name is carried by its id)
FuelStop(best) ==
    LET gallons == GallonsToFill(tank_range,
                                 RangeAtStation(range_here, best.distance), mpg)
    IN  [station_id |-> best.station.opis_id,
         location |-> <<best.station.lat, best.station.lon>>,
         price |-> best.station.retail_price,
         distance_from_start |-> dist_from_start + best.distance,
         gallons |-> gallons,
         cost |-> StopCost(best.station.retail_price, gallons)]

----------------------------------------------------------------------------
(* Lines 221-265: resuming the walk after a stop                           *)

\* lines 225-234, from k on, with the running minimum min_d at best
RECURSIVE ResumeScan(_, _, _, _)
ResumeScan(k, min_d, best, at) ==
    IF k >= Len(sampled_points) THEN best
    ELSE LET d == calculate_distance(Coords(sampled_points[k + 1]), at)
         IN  IF d < min_d THEN ResumeScan(k + 1, d, k, at)
             ELSE IF d > min_d + ResumeBuffer THEN best
             ELSE ResumeScan(k + 1, min_d, best, at)

\* mutant: the scan starts at the first sampled point, not at i
BestKFromStart(at) ==
    ResumeScan(1, calculate_distance(Coords(sampled_points[1]), at), 0, at)

\* lines 222-234: the first pass, k = i, always beats min_d = inf
BestK(at) ==
    ResumeScan(i + 1, calculate_distance(current_coords, at), i, at)

\* mutant: the leg from the station added instead of subtracted
ResumeRangeAddsStationLeg(tank, station_to_next, prev_to_next) ==
    tank + station_to_next + prev_to_next

\* line 258
ResumeRange(tank, station_to_next, prev_to_next) ==
    tank - station_to_next + prev_to_next

\* lines 236-265: the next value of <<i, remaining_range>>
Resume(at) ==
    LET best_k == BestK(at)
    IN  IF best_k < Len(sampled_points) - 1
        THEN LET next_pt == Coords(sampled_points[best_k + 2])
                 prev_pt == Coords(sampled_points[best_k + 1])
             IN  <<best_k + 1,
                   ResumeRange(tank_range,
                               calculate_distance(at, next_pt),
                               calculate_distance(prev_pt, next_pt))>>
        ELSE <<i + 1, tank_range>>

----------------------------------------------------------------------------
(* Lines 274-303: the final leg and the returned plan                      *)

RECURSIVE SumPrices(_), SumCosts(_)
SumPrices(table) ==
    IF table = <<>> THEN 0
    ELSE table[1].retail_price + SumPrices(Tail(table))

SumCosts(stops) ==
    IF stops = <<>> THEN Rat(0, 1)
    ELSE RatAdd(stops[1].cost, SumCosts(Tail(stops)))

\* mutant: the price of the first prefiltered station instead of the mean
FinalPriceFirstStation(stops, table) ==
    IF stops # <<>> THEN Rat(stops[Len(stops)].price, 1)
    ELSE IF table # <<>> THEN Rat(table[1].retail_price, 1)
    ELSE Rat(FallbackPrice, 1)

\* mutant: no fallback price, the final leg is free without stations
FinalPriceNoFallback(stops, table) ==
    IF stops # <<>> THEN Rat(stops[Len(stops)].price, 1)
    ELSE IF table # <<>> THEN Rat(SumPrices(table), Len(table))
    ELSE Rat(0, 1)

\* lines 279-292
FinalPrice(stops, table) ==
    IF stops # <<>> THEN Rat(stops[Len(stops)].price, 1)
    ELSE IF table # <<>> THEN Rat(SumPrices(table), Len(table))
    ELSE Rat(FallbackPrice, 1)

\* mutant: the final leg measured from the start, not from the last stop
FinalLegFromStart(from, to) == calculate_distance(start_coords, to)

\* lines 275-276
FinalLegMiles(from, to) == calculate_distance(from, to)

\* lines 275-297
TotalCost(stops, table, from, to, economy) ==
    RatAdd(SumCosts(stops),
           RatMul(FinalPrice(stops, table), Rat(FinalLegMiles(from, to), economy)))

----------------------------------------------------------------------------
(* Inputs                                                                  *)

\* latitude marks of the general input family, miles
Marks == {0, 30, 60, 90}

\* retail prices, cents per gallon
Prices == {300, 600}

\* vehicle profiles <<tank_range, mpg>>
Vehicles == {<<80, 10>>, <<150, 25>>}

\* vehicle profiles with a non-positive tank_range or mpg
BadVehicles == {<<0, 10>>, <<-40, 10>>, <<80, 0>>, <<80, -10>>}

\* miles by which the road distance exceeds the polyline's chord length
Slacks == {0, 20}

SeqsUpTo(S, n) == UNION {[1..m -> S] : m \in 0..n}

\* polylines of the general family: along one meridian, from mark 0, any
\* two consecutive points distinct
Routes == {r \in SeqsUpTo({<<0, lat>> : lat \in Marks}, MaxPts) :
             /\ r # <<>> => r[1] = <<0, 0>>
             /\ \A k \in 1..(Len(r) - 1) : r[k] # r[k + 1]}

\* station tables of the general family: stations on the road
StationTables ==
    {[k \in 1..Len(t) |-> [opis_id |-> k, lat |-> t[k][1], lon |-> 0,
                           retail_price |-> t[k][2]]] :
       t \in SeqsUpTo((Marks \ {0}) \X Prices, MaxStations)}

RECURSIVE PathLen(_)
\* length of a polyline along its points
PathLen(route) ==
    IF Len(route) < 2 THEN 0
    ELSE calculate_distance(Coords(route[1]), Coords(route[2]))
         + PathLen(Tail(route))

\* the straight polyline from mile 0 to mile len, a point every step miles
StraightRoute(len, step) == [k \in 1..(len \div step + 1) |-> <<0, (k - 1) * step>>]

\* the state before the call: the arguments and the station table
InitCall(route, td, tank, economy, table) ==
    /\ route_coordinates = route
    /\ start_coords = IF route = <<>> THEN <<0, 0>> ELSE Coords(route[1])
    /\ end_coords = IF route = <<>> THEN <<0, 0>> ELSE Coords(route[Len(route)])
    /\ total_distance = td
    /\ tank_range = tank
    /\ mpg = economy
    /\ catalog = table
    /\ stations = <<>>
    /\ sampled_points = <<>>
    /\ i = 0
    /\ remaining_range = tank
    /\ last_stop_coords = start_coords
    /\ fuel_stops = <<>>
    /\ pc = "start"
    /\ plan = NoPlan
    /\ error = NoError
    /\ walk = <<>>
    /\ cache = EmptyCache
    /\ callers = [c \in Callers |-> Idle]

\* short routes, small tanks, up to MaxStations stations
InitGeneral ==
    \E route \in Routes, slack \in Slacks, vehicle \in Vehicles,
       table \in StationTables :
        InitCall(route, PathLen(route) + slack, vehicle[1], vehicle[2], table)

\* short routes, at most one station, a non-positive tank_range or mpg
InitBadVehicle ==
    \E route \in {r \in Routes : Len(r) <= 3}, vehicle \in BadVehicles,
       table \in {t \in StationTables : Len(t) <= 1} :
        InitCall(route, PathLen(route), vehicle[1], vehicle[2], table)

\* miles at which an unevenly drawn long road may have a polyline point
LongHaulMarks == {250, 300, 440, 460, 490, 700, 950}

RECURSIVE Ascending(_)
\* the members of a set of miles in increasing order
Ascending(S) ==
    IF S = {} THEN <<>>
    ELSE LET m == CHOOSE x \in S : \A y \in S : x <= y
         IN  <<m>> \o Ascending(S \ {m})

\* the straight polyline from mile 0 to mile len through the given miles
UnevenRoute(len, S) ==
    LET miles == Ascending(S \cup {0, len})
    IN  [k \in 1..Len(miles) |-> <<0, miles[k]>>]

\* the straight 1200-mile roads: evenly spaced polylines, and uneven ones
LongHaulRoutes ==
    {StraightRoute(1200, step) :
        step \in {25, 50, 100, 150, 200, 240, 300, 400, 600}}
    \cup {UnevenRoute(1200, S) : S \in SUBSET LongHaulMarks}

\* a straight 1200-mile road, tank_range 500, 10 mpg, at most one station,
\* at 3.00 per gallon somewhere along or beside the road
InitLongHaul ==
    \E route \in LongHaulRoutes,
       lat \in {350, 440, 450, 460, 700}, lon \in {0, 10},
       table \in {0, 1} :
        InitCall(route, 1200, 500, 10,
                 IF table = 0 THEN <<>>
                 ELSE <<[opis_id |-> 1, lat |-> lat, lon |-> lon,
                         retail_price |-> 300]>>)

\* a straight road shorter than tank_range 500, 10 mpg, no station
InitShortHaul ==
    \E len \in {240, 480, 490}, step \in {10, 35, 70, 245, 20, 40, 60, 80, 120, 240} :
        /\ len % step = 0
        /\ InitCall(StraightRoute(len, step), len, 500, 10, <<>>)

Init == InitGeneral \/ InitBadVehicle \/ InitLongHaul \/ InitShortHaul

----------------------------------------------------------------------------
(* Actions: the call's entry, one loop iteration per action, the return    *)

\* lines 98-126; min() of an empty list raises ValueError at line 106
Prepare ==
    /\ pc = "start"
    /\ IF route_coordinates = <<>>
       THEN /\ pc' = "error"
            /\ error' = [kind |-> "ValueError"]
            /\ UNCHANGED <<stations, sampled_points>>
       ELSE /\ pc' = "walk"
            /\ stations' = Prefilter(catalog, route_coordinates)
            /\ sampled_points' = SamplePoints(route_coordinates, total_distance)
            /\ UNCHANGED error
    /\ UNCHANGED <<cvars, inputs, i, remaining_range, last_stop_coords, fuel_stops,
                   plan, walk>>

InLoop == pc = "walk" /\ i < Len(sampled_points)

\* the history entry of the iteration at sampled point i: the range held
\* after line 136, the trigger of line 149, and when a station was chosen
\* its coordinate, the range on arrival and the value given to
\* remaining_range for the next iteration
Visit(stopped, at, at_station, reset) ==
    [wp |-> i,
     range |-> range_here,
     need_fuel |-> NeedFuel(range_here, tank_range, dist_to_next),
     to_end |-> dist_to_end,
     stopped |-> stopped,
     station |-> at,
     range_at_station |-> at_station,
     reset |-> reset]

Passed == Visit(FALSE, <<>>, range_here, range_here)

\* lines 128-149 and 272: no fuel needed at this point
Cruise ==
    /\ InLoop
    /\ ~NeedFuel(range_here, tank_range, dist_to_next)
    /\ i' = i + 1
    /\ remaining_range' = range_here
    /\ walk' = Append(walk, Passed)
    /\ UNCHANGED <<cvars, inputs, stations, sampled_points, last_stop_coords,
                   fuel_stops, pc, plan, error>>

\* lines 149-155: fuel is low but the destination is within range
SkipToEnd ==
    /\ InLoop
    /\ NeedFuel(range_here, tank_range, dist_to_next)
    /\ CanMakeIt(range_here, dist_to_end)
    /\ i' = i + 1
    /\ remaining_range' = range_here
    /\ walk' = Append(walk, Passed)
    /\ UNCHANGED <<cvars, inputs, stations, sampled_points, last_stop_coords,
                   fuel_stops, pc, plan, error>>

\* lines 157-265: a station is chosen, the stop is recorded, the walk resumes
Refuel ==
    /\ InLoop
    /\ NeedFuel(range_here, tank_range, dist_to_next)
    /\ ~CanMakeIt(range_here, dist_to_end)
    /\ nearby_stations # <<>>
    /\ mpg # 0
    /\ LET stop == FuelStop(best_station)
           next == Resume(stop.location)
       IN  /\ fuel_stops' = Append(fuel_stops, stop)
           /\ last_stop_coords' = stop.location
           /\ i' = next[1]
           /\ remaining_range' = next[2]
           /\ walk' = Append(walk, Visit(TRUE, stop.location,
                                          RangeAtStation(range_here, best_station.distance),
                                          next[2]))
    /\ UNCHANGED <<cvars, inputs, stations, sampled_points, pc, plan, error>>

\* the ZeroDivisionError of a division by mpg = 0
ZeroDivision == [kind |-> "ZeroDivisionError"]

\* lines 199-200: a station is chosen and the gallons are divided by mpg = 0
RefuelDividesByZero ==
    /\ InLoop
    /\ NeedFuel(range_here, tank_range, dist_to_next)
    /\ ~CanMakeIt(range_here, dist_to_end)
    /\ nearby_stations # <<>>
    /\ mpg = 0
    /\ pc' = "error"
    /\ error' = ZeroDivision
    /\ remaining_range' = range_here
    /\ walk' = Append(walk, Passed)
    /\ UNCHANGED <<cvars, inputs, stations, sampled_points, i, last_stop_coords,
                   fuel_stops, plan>>

\* mutant: critical already below the 50 miles of the desperate radius
CriticalBelowDesperate(rr) == rr < DesperateRange

\* mutant: the comparison of line 269 reversed
CriticalReversed(rr) == rr > CriticalRange

\* line 269
Critical(rr) == rr < CriticalRange

\* lines 267-272: no station in reach, range not yet critical
AdvanceWithoutStation ==
    /\ InLoop
    /\ NeedFuel(range_here, tank_range, dist_to_next)
    /\ ~CanMakeIt(range_here, dist_to_end)
    /\ nearby_stations = <<>>
    /\ ~Critical(range_here)
    /\ i' = i + 1
    /\ remaining_range' = range_here
    /\ walk' = Append(walk, Passed)
    /\ UNCHANGED <<cvars, inputs, stations, sampled_points, last_stop_coords,
                   fuel_stops, pc, plan, error>>

\* mutant: the range reported is the one held before line 136
StrandedErrorStale(at, rr) ==
    [kind |-> "Stranded", location |-> at, range |-> remaining_range]

\* line 270: the ValueError "Stranded at {current_coords} with
\* {remaining_range:.2f} miles range"
StrandedError(at, rr) == [kind |-> "Stranded", location |-> at, range |-> rr]

\* lines 267-270
RaiseStranded ==
    /\ InLoop
    /\ NeedFuel(range_here, tank_range, dist_to_next)
    /\ ~CanMakeIt(range_here, dist_to_end)
    /\ nearby_stations = <<>>
    /\ Critical(range_here)
    /\ pc' = "stranded"
    /\ error' = StrandedError(current_coords, range_here)
    /\ remaining_range' = range_here
    /\ walk' = Append(walk, Passed)
    /\ UNCHANGED <<cvars, inputs, stations, sampled_points, i, last_stop_coords,
                   fuel_stops, plan>>

\* lines 274-303
Return ==
    /\ pc = "walk"
    /\ i >= Len(sampled_points)
    /\ mpg # 0
    /\ pc' = "done"
    /\ plan' = [fuel_stops |-> fuel_stops,
                total_cost |-> TotalCost(fuel_stops, stations, last_stop_coords,
                                         end_coords, mpg),
                total_distance |-> total_distance]
    /\ UNCHANGED <<cvars, inputs, stations, sampled_points, i, remaining_range,
                   last_stop_coords, fuel_stops, error, walk>>

\* lines 275-276: the final leg is divided by mpg = 0
ReturnDividesByZero ==
    /\ pc = "walk"
    /\ i >= Len(sampled_points)
    /\ mpg = 0
    /\ pc' = "error"
    /\ error' = ZeroDivision
    /\ UNCHANGED <<cvars, inputs, stations, sampled_points, i, remaining_range,
                   last_stop_coords, fuel_stops, plan, walk>>

Next ==
    \/ Prepare
    \/ Cruise
    \/ SkipToEnd
    \/ Refuel
    \/ RefuelDividesByZero
    \/ AdvanceWithoutStation
    \/ RaiseStranded
    \/ Return
    \/ ReturnDividesByZero

Spec == Init /\ [][Next]_vars

\* the cache before any call, with no planning call under way
InitCache == InitCall(<<>>, 0, 500, 10, <<>>)

NextCache ==
    \/ \E c \in Callers, point1 \in CachePoints, point2 \in CachePoints :
        Call(c, point1, point2)
    \/ \E c \in Callers : CacheGet(c)
    \/ \E c \in Callers : ReturnCached(c)
    \/ \E c \in Callers : Compute(c)
    \/ \E c \in Callers : CacheSet(c)
    \/ \E key \in DOMAIN cache : Expire(key)

\* concurrent calculate_distance calls on the shared cache
SpecCache == InitCache /\ [][NextCache]_vars

----------------------------------------------------------------------------
(* Properties                                                              *)

ValidVehicle == tank_range > 0 /\ mpg > 0

Returned == pc = "done"

Stops == {k \in 1..Len(walk) : walk[k].stopped}

\* C1: in a run that returns a plan, the range held after the per-waypoint
\* subtraction is >= 0 at every sampled point the walk visited, and the
\* range on arrival is >= 0 at every fuel stop.
C1_NeverOutOfRange ==
    (ValidVehicle /\ Returned) =>
        \A k \in 1..Len(walk) :
            /\ walk[k].range >= 0
            /\ walk[k].stopped => walk[k].range_at_station >= 0

\* a returned plan whose walk visited three points or more and refuelled
C1_Witness ==
    /\ ValidVehicle /\ Returned
    /\ Len(walk) >= 3
    /\ Stops # {}

\* C2: in a returned plan, distance_from_start increases strictly from each
\* fuel stop to the next.
C2_StopsIncreasing ==
    Returned =>
        \A k \in 1..(Len(plan.fuel_stops) - 1) :
            plan.fuel_stops[k + 1].distance_from_start
                > plan.fuel_stops[k].distance_from_start

\* C3: every fuel stop has gallons >= 0 and cost = price * gallons, and the
\* range on arrival at its station is at most tank_range.
C3_GallonsAndCost ==
    ValidVehicle =>
        /\ \A k \in 1..Len(fuel_stops) :
            /\ RatNonNeg(fuel_stops[k].gallons)
            /\ RatEq(fuel_stops[k].cost,
                     RatMul(Rat(fuel_stops[k].price, 1), fuel_stops[k].gallons))
        /\ \A k \in Stops : walk[k].range_at_station <= tank_range

\* a second stop, made after an earlier refuel and the resumed walk
C3_Witness ==
    /\ ValidVehicle
    /\ Len(fuel_stops) >= 2
    /\ Cardinality(Stops) >= 2
    /\ \E k \in Stops : walk[k].wp > 0 /\ walk[k].range < tank_range

\* the range in effect at the waypoint visited after history entry k
RangeAfter(k) == IF k < Len(walk) THEN walk[k + 1].range ELSE range_here

\* the waypoint visited after history entry k (0-based index)
WaypointAfter(k) == IF k < Len(walk) THEN walk[k + 1].wp ELSE i

\* history entry k is followed by a visit to another waypoint
Resumed(k) == k < Len(walk) \/ (pc = "walk" /\ i < Len(sampled_points))

\* C4: whenever a station is chosen, the value the resume step assigns to
\* remaining_range is at most tank_range.
C4_ResetWithinTank ==
    ValidVehicle => \A k \in Stops : walk[k].reset <= tank_range

\* C4, amended: the range in effect after a station visit, once the next
\* iteration has subtracted its leg (or as assigned, when the walk ends
\* there), is at most tank_range.
C4_EffectiveRangeWithinTank ==
    ValidVehicle =>
        \A k \in Stops :
            IF Resumed(k) THEN RangeAfter(k) <= tank_range
            ELSE walk[k].reset <= tank_range

\* a stop whose assigned value exceeds tank_range, followed by a visit
C4_Witness ==
    /\ ValidVehicle
    /\ \E k \in Stops : walk[k].reset > tank_range /\ k < Len(walk)

\* C5: after a station is chosen, the range in effect at the next waypoint
\* the walk visits is tank_range - distance(station, that waypoint).
C5_Resynchronized ==
    ValidVehicle =>
        \A k \in Stops :
            Resumed(k) =>
                RangeAfter(k) = tank_range -
                    calculate_distance(walk[k].station,
                                       Coords(sampled_points[WaypointAfter(k) + 1]))

\* the coordinate of the sampled point of history entry k
VisitedCoords(k) == Coords(sampled_points[walk[k].wp + 1])

\* C6: with no prefiltered station, a trigger at a waypoint with less than
\* 20 miles of range ends the call with the Stranded error, which reports
\* that waypoint and its range.
C6_StrandedWhenCritical ==
    \A k \in 1..Len(walk) :
        (stations = <<>> /\ walk[k].need_fuel /\ walk[k].range < 20) =>
            /\ pc = "stranded"
            /\ k = Len(walk)
            /\ error = [kind |-> "Stranded", location |-> VisitedCoords(k),
                        range |-> walk[k].range]

\* C6, amended: the same, for a waypoint whose range is also below its
\* distance to the destination.
C6_StrandedWhenCriticalShortOfEnd ==
    \A k \in 1..Len(walk) :
        (/\ stations = <<>>
         /\ walk[k].need_fuel
         /\ walk[k].range < 20
         /\ walk[k].range < walk[k].to_end) =>
            /\ pc = "stranded"
            /\ k = Len(walk)
            /\ error = [kind |-> "Stranded", location |-> VisitedCoords(k),
                        range |-> walk[k].range]

\* stranded with an empty station list, after at least one leg was driven
C6_Witness ==
    /\ pc = "stranded"
    /\ stations = <<>>
    /\ Len(walk) >= 2
    /\ walk[Len(walk)].wp > 0
    /\ walk[Len(walk)].need_fuel
    /\ walk[Len(walk)].range < 20
    /\ walk[Len(walk)].range < walk[Len(walk)].to_end

ShortTrip == 5 * total_distance <= 2 * tank_range

\* C7: a route with total_distance <= 0.4 * tank_range is planned without
\* any fuel stop and without an error, whatever the stations.
C7_ShortTripNoStops ==
    (ValidVehicle /\ ShortTrip /\ route_coordinates # <<>>) =>
        /\ fuel_stops = <<>>
        /\ pc \notin {"stranded", "error"}
        /\ Returned => plan.fuel_stops = <<>>

\* a short trip returned without stops although the trigger fired with a
\* station on the list
C7_Witness ==
    /\ ValidVehicle /\ ShortTrip /\ Returned
    /\ stations # <<>>
    /\ \E k \in 1..Len(walk) : walk[k].need_fuel
    /\ plan.fuel_stops = <<>>

\* the price of a plan without stops: the mean price of the prefiltered
\* stations, or 3.50 when there is none
NoStopPrice ==
    IF stations # <<>> THEN Rat(SumPrices(stations), Len(stations))
    ELSE Rat(350, 1)

\* C8: on a short trip, total_cost = (total_distance / mpg) * the price
\* used when there are no stops (stated for polylines of two points or
\* more whose length is the reported total_distance).
C8_ShortTripCostByRoadMiles ==
    (/\ ValidVehicle /\ ShortTrip /\ Returned
     /\ Len(route_coordinates) >= 2
     /\ total_distance = PathLen(route_coordinates)) =>
        RatEq(plan.total_cost, RatMul(Rat(total_distance, mpg), NoStopPrice))

\* C8, amended: on a short trip, total_cost = (distance(start, end) / mpg)
\* * the price used when there are no stops.
C8_ShortTripCostByEndpoints ==
    (ValidVehicle /\ ShortTrip /\ Returned) =>
        RatEq(plan.total_cost,
              RatMul(Rat(calculate_distance(start_coords, end_coords), mpg),
                     NoStopPrice))

\* a short trip, returned, with stations of different prices on the list
\* and a road longer than the distance between its end points
C8_Witness ==
    /\ ValidVehicle /\ ShortTrip /\ Returned
    /\ Len(stations) = 2
    /\ stations[1].retail_price # stations[2].retail_price
    /\ calculate_distance(start_coords, end_coords) > 0
    /\ total_distance > calculate_distance(start_coords, end_coords)

\* the route is the straight polyline from mile 0 to mile len
StraightTo(len) ==
    /\ route_coordinates # <<>>
    /\ start_coords = <<0, 0>>
    /\ end_coords = <<len, 0>>
    /\ PathLen(route_coordinates) = len
    /\ total_distance = len

\* the scenario of C9: 1200 straight miles, tank_range 500, 10 mpg, and a
\* single station, within 10 miles of mile 450, at 3.00 per gallon
LongHaul ==
    /\ StraightTo(1200)
    /\ tank_range = 500
    /\ mpg = 10
    /\ Len(catalog) = 1
    /\ catalog[1].retail_price = 300
    /\ calculate_distance(<<catalog[1].lat, catalog[1].lon>>, <<450, 0>>) <= 10

\* the scenario with evenly spaced polyline points, 50 miles apart or less
DenseLongHaul ==
    /\ LongHaul
    /\ \E step \in 1..50 :
        1200 % step = 0 /\ route_coordinates = StraightRoute(1200, step)

\* every fuel stop so far is at the scenario's station, filling the tank
LongHaulStopsAtStation ==
    \A k \in 1..Len(fuel_stops) :
        /\ fuel_stops[k].station_id = catalog[1].opis_id
        /\ \E j \in Stops :
            /\ walk[j].station = fuel_stops[k].location
            /\ RatEq(fuel_stops[k].gallons,
                     Rat(500 - walk[j].range_at_station, 10))
            /\ Cardinality({m \in Stops : m <= j}) = k

\* C9: in the scenario the call returns a plan with exactly one fuel stop,
\* at the station, with gallons = (500 - range_at_station) / 10, and does
\* not raise Stranded (stated for evenly spaced polyline points, 50 miles
\* apart or less).
C9_LongHaulOneStop ==
    DenseLongHaul =>
        /\ pc # "stranded"
        /\ Returned =>
            /\ Len(plan.fuel_stops) = 1
            /\ LongHaulStopsAtStation

\* C9, amended: in the scenario the call never returns a plan: the walk
\* can only end in Stranded.  Every fuel stop it makes is at the station,
\* with gallons = (500 - range_at_station) / 10; when the polyline points
\* are evenly spaced, 50 miles apart or less, it makes exactly one before
\* it strands.
C9_LongHaulStrands ==
    LongHaul =>
        /\ ~Returned
        /\ pc # "error"
        /\ (pc = "walk" => i < Len(sampled_points))
        /\ LongHaulStopsAtStation
        /\ (DenseLongHaul => Len(fuel_stops) <= 1)
        /\ (DenseLongHaul /\ pc = "stranded") => Len(fuel_stops) = 1

\* the scenario, stranded after one stop at the station
C9_Witness ==
    /\ DenseLongHaul
    /\ pc = "stranded"
    /\ Len(fuel_stops) = 1
    /\ walk[Len(walk)].wp > walk[1].wp

\* C10: a straight route shorter than tank_range with no prefiltered
\* station never strands and returns no stops and
\* total_cost = (length / mpg) * 3.50; 480 miles at tank_range 500 and
\* 10 mpg cost 168.00.
C10_StraightShortOfTank ==
    \A len \in 0..(tank_range - 1) :
        (ValidVehicle /\ StraightTo(len) /\ pc # "start" /\ stations = <<>>) =>
            /\ pc # "stranded"
            /\ fuel_stops = <<>>
            /\ Returned =>
                /\ plan.fuel_stops = <<>>
                /\ RatEq(plan.total_cost, Rat(len * 350, mpg))
                /\ (len = 480 /\ tank_range = 500 /\ mpg = 10) =>
                       plan.total_cost = [n |-> 16800, d |-> 1]

\* the 480-mile scenario, returned, after the low-fuel trigger fired
C10_Witness ==
    /\ StraightTo(480) /\ tank_range = 500 /\ mpg = 10
    /\ stations = <<>>
    /\ Returned
    /\ \E k \in 1..Len(walk) : walk[k].need_fuel
    /\ plan.total_cost = [n |-> 16800, d |-> 1]

\* C11: a vehicle profile with tank_range <= 0 or mpg <= 0 is rejected with
\* InvalidVehicleProfile before planning starts: no waypoint is walked, no
\* station is chosen and no plan is returned.
C11_InvalidVehicleRejected ==
    ~ValidVehicle =>
        /\ walk = <<>>
        /\ fuel_stops = <<>>
        /\ plan = NoPlan
        /\ pc # "start" =>
            (pc = "error" /\ error = [kind |-> "InvalidVehicleProfile"])

\* C12: a route polyline of fewer than 2 points makes the call fail with
\* the EmptyRoute error (in the code, an error raised before the walk) and
\* return no plan.
C12_EmptyRouteRejected ==
    (ValidVehicle /\ Len(route_coordinates) < 2 /\ pc # "start") =>
        /\ pc = "error"
        /\ walk = <<>>
        /\ plan = NoPlan

\* the ordered pairs whose key is the given one
PairsOfKey(key) ==
    {pq \in CachePoints \X CachePoints : cache_key(pq[1], pq[2]) = key}

\* C13: under any interleaving of concurrent calls and expirations, every
\* call returns the distance of its own ordered pair, every cache entry
\* holds the distance of the pair of its key, and a write over an existing
\* entry writes the value the entry already holds.
C13_CacheReturnsOwnDistance ==
    /\ [](\A c \in Callers :
            callers[c].pc = "done" =>
                callers[c].result =
                    geodesic_miles(callers[c].point1, callers[c].point2))
    /\ [](\A key \in DOMAIN cache : \A pq \in PairsOfKey(key) :
            cache[key] = geodesic_miles(pq[1], pq[2]))
    /\ [][\A key \in DOMAIN cache \cap DOMAIN cache' :
            cache'[key] = cache[key]]_vars

\* one caller has stored and returned a distance, another that missed the
\* same key is about to store it again
C13_Witness ==
    \E c \in Callers, d \in Callers :
        /\ c # d
        /\ callers[c].pc = "done"
        /\ callers[c].cached_distance = <<>>
        /\ callers[c].result > 0
        /\ callers[d].pc = "set"
        /\ callers[d].cache_key = callers[c].cache_key
        /\ callers[c].cache_key \in DOMAIN cache

\* the distance from the waypoint of history entry k to its station
StationDistance(k) == calculate_distance(VisitedCoords(k), walk[k].station)

\* C14: every fuel stop's station is within the search radius in effect at
\* the waypoint that triggered it: 0.95 * remaining_range when
\* remaining_range >= 50, remaining_range itself below 50.
C14_StopWithinRadius ==
    \A k \in Stops :
        IF walk[k].range >= 50
        THEN 20 * StationDistance(k) <= 19 * walk[k].range
        ELSE StationDistance(k) <= walk[k].range

\* a stop made with 50 miles of range or more and a stop made with less,
\* each at a station off the waypoint
C14_Witness ==
    \E j \in Stops, k \in Stops :
        /\ walk[j].range >= 50
        /\ StationDistance(j) > 0
        /\ walk[k].range < 50
        /\ StationDistance(k) > 0

\* C15: for a route of at least one point the sampled sequence is not
\* empty, starts at the route's first point and ends at its last point.
C15_SampledEndpoints ==
    (route_coordinates # <<>> /\ pc # "start") =>
        /\ sampled_points # <<>>
        /\ sampled_points[1] = route_coordinates[1]
        /\ sampled_points[Len(sampled_points)]
               = route_coordinates[Len(route_coordinates)]

\* a route sampled with a stride above 1 that does not land on its last
\* point
C15_Witness ==
    /\ route_coordinates # <<>> /\ pc # "start"
    /\ SampleInterval(route_coordinates, total_distance) > 1
    /\ (Len(route_coordinates) - 1)
           % SampleInterval(route_coordinates, total_distance) # 0
    /\ Len(sampled_points) >= 3

\* the number, in fuel_stops, of the stop of history entry k
StopNumber(k) == Cardinality({m \in Stops : m <= k})

\* the score, in cents, of a prefiltered station at history entry k:
\* price + 0.05 * ((distance_to_station + distance(station, end)) - dist_to_end)
ScoreAt(k, station) ==
    LET at == <<station.lat, station.lon>>
    IN  station.retail_price
        + 5 * ((calculate_distance(VisitedCoords(k), at)
                + calculate_distance(at, end_coords)) - walk[k].to_end)

\* the station is within the search radius in effect at history entry k
InReachAt(k, station) ==
    LET d == calculate_distance(VisitedCoords(k), <<station.lat, station.lon>>)
    IN  IF walk[k].range >= 50 THEN 20 * d <= 19 * walk[k].range
        ELSE d <= walk[k].range

\* C16: at every refuel the chosen station has the minimal score among the
\* prefiltered stations within the search radius, and is the first of the
\* prefiltered list among those of minimal score.
C16_BestScoreFirst ==
    \A k \in Stops :
        \E j \in 1..Len(stations) :
            /\ stations[j].opis_id = fuel_stops[StopNumber(k)].station_id
            /\ InReachAt(k, stations[j])
            /\ \A m \in 1..Len(stations) :
                InReachAt(k, stations[m]) =>
                    /\ ScoreAt(k, stations[j]) <= ScoreAt(k, stations[m])
                    /\ m < j => ScoreAt(k, stations[m]) > ScoreAt(k, stations[j])

\* a stop chosen between two stations in reach of equal score, a cheap one
\* off the way and a dear one on the way
C16_Witness ==
    \E k \in Stops :
        \E j \in 1..Len(stations), m \in 1..Len(stations) :
            /\ j < m
            /\ InReachAt(k, stations[j]) /\ InReachAt(k, stations[m])
            /\ ScoreAt(k, stations[j]) = ScoreAt(k, stations[m])
            /\ stations[j].retail_price # stations[m].retail_price
            /\ stations[j].opis_id = fuel_stops[StopNumber(k)].station_id

\* the coordinate the final leg of the returned plan starts from
PlanLastStopLocation ==
    IF plan.fuel_stops = <<>> THEN start_coords
    ELSE plan.fuel_stops[Len(plan.fuel_stops)].location

\* the price of the final leg of the returned plan
PlanFinalPrice ==
    IF plan.fuel_stops # <<>>
    THEN Rat(plan.fuel_stops[Len(plan.fuel_stops)].price, 1)
    ELSE NoStopPrice

\* C17: in a returned plan, total_cost = the sum of the stops' costs +
\* price_final * distance(last_stop_location, destination) / mpg, with
\* price_final the last stop's price, else the mean price of the
\* prefiltered stations, else 3.50.
C17_TotalCost ==
    Returned =>
        RatEq(plan.total_cost,
              RatAdd(SumCosts(plan.fuel_stops),
                     RatMul(PlanFinalPrice,
                            Rat(calculate_distance(PlanLastStopLocation,
                                                   end_coords), mpg))))

\* a returned plan with two stops at different prices, the last one neither
\* at the start nor at the destination
C17_Witness ==
    /\ Returned /\ ValidVehicle
    /\ Len(plan.fuel_stops) >= 2
    /\ plan.fuel_stops[1].price # plan.fuel_stops[Len(plan.fuel_stops)].price
    /\ calculate_distance(PlanLastStopLocation, end_coords) > 0
    /\ calculate_distance(PlanLastStopLocation, start_coords) > 0
    /\ calculate_distance(PlanLastStopLocation, end_coords)
           # calculate_distance(start_coords, end_coords)

\* at the current waypoint the trigger fires, the destination is out of
\* range, no prefiltered station is within the search radius and the range
\* is 20 miles or more
NoStationNotCritical ==
    /\ InLoop
    /\ (5 * range_here < 2 * tank_range \/ range_here < dist_to_next + 20)
    /\ range_here < dist_to_end
    /\ \A j \in 1..Len(stations) :
        LET d == calculate_distance(current_coords,
                                    <<stations[j].lat, stations[j].lon>>)
        IN  IF range_here >= 50 THEN 20 * d > 19 * range_here
            ELSE d > range_here
    /\ range_here >= 20

\* C18: in that case the iteration only advances i by one: the range held
\* after the iteration is the range at the waypoint, last_stop_coords and
\* fuel_stops are unchanged and no error is raised.
C18_AdvanceOnly ==
    [][NoStationNotCritical =>
          /\ i' = i + 1
          /\ remaining_range' = range_here
          /\ last_stop_coords' = last_stop_coords
          /\ fuel_stops' = fuel_stops
          /\ pc' = "walk"
          /\ error' = error
          /\ plan' = plan]_vars

\* the walk went on from a waypoint where fuel was wanted with 20 miles or
\* more left, short of the destination, with stations on the list but
\* none in reach
C18_Witness ==
    \E k \in 1..(Len(walk) - 1) :
        /\ walk[k].need_fuel
        /\ walk[k].range < walk[k].to_end
        /\ walk[k].range >= 20
        /\ ~walk[k].stopped
        /\ stations # <<>>
        /\ walk[k + 1].wp = walk[k].wp + 1

\* dist_to_next at history entry k: 50 at the last sampled point
NextLegAt(k) ==
    IF walk[k].wp < Len(sampled_points) - 1
    THEN calculate_distance(VisitedCoords(k),
                            Coords(sampled_points[walk[k].wp + 2]))
    ELSE 50

\* the refuel trigger at history entry k
TriggerAt(k) ==
    \/ 5 * walk[k].range < 2 * tank_range
    \/ walk[k].range < NextLegAt(k) + 20

\* the value of i after the iteration of history entry k
IndexAfter(k) == IF k < Len(walk) THEN walk[k + 1].wp ELSE i

\* C19: a fuel stop is made at a waypoint only if the refuel trigger holds
\* there and the range is below the distance to the destination; with the
\* range at or above that distance the walk advances i by one, without a
\* stop and without Stranded.
C19_StopOnlyWhenNeeded ==
    \A k \in 1..Len(walk) :
        /\ walk[k].stopped => (TriggerAt(k) /\ walk[k].range < walk[k].to_end)
        /\ walk[k].range >= walk[k].to_end =>
            /\ ~walk[k].stopped
            /\ k = Len(walk) => pc # "stranded"
            /\ IndexAfter(k) = walk[k].wp + 1

\* the walk passed a waypoint where the trigger held and a station was in
\* reach, because the destination was in range; it stopped at another
C19_Witness ==
    /\ Stops # {}
    /\ \E k \in 1..Len(walk) :
        /\ TriggerAt(k)
        /\ walk[k].range >= walk[k].to_end
        /\ \E j \in 1..Len(stations) : InReachAt(k, stations[j])
        /\ ~walk[k].stopped
        /\ IndexAfter(k) = walk[k].wp + 1

\* the call has ended: a plan was returned or an error raised
Terminated == pc \in {"done", "stranded", "error"}

\* C20: the walk terminates.  Every loop iteration of a valid vehicle
\* raises Stranded or strictly increases i, never beyond the end of the
\* sampled sequence; there are never more iterations or fuel stops than
\* sampled points, so the call ends within that many iterations, with i
\* at the end of the sampled sequence or with an error.
C20_WalkTerminates ==
    /\ [][(ValidVehicle /\ InLoop) =>
            \/ pc' = "stranded"
            \/ (pc' = "walk" /\ i' > i /\ i' <= Len(sampled_points))]_vars
    /\ [][InLoop => (Terminated' \/ i' > i)]_vars
    /\ [](/\ Len(walk) <= Len(sampled_points)
          /\ Len(fuel_stops) <= Len(sampled_points)
          /\ Cardinality(Stops) = Len(fuel_stops)
          /\ pc = "walk" => i <= Len(sampled_points))

\* a call that returned after a stop whose resynchronization skipped a
\* sampled point
C20_Witness ==
    /\ ValidVehicle /\ Returned
    /\ Len(walk) < Len(sampled_points)
    /\ \E k \in Stops : IndexAfter(k) > walk[k].wp + 1

====
